---------------------------- MODULE Spec2Model ----------------------------
(***************************************************************************)
(* Model of libiban (src/src/libiban.cpp): IBAN::createFromString, the     *)
(* getters, getMachineForm, getHumanReadable and validate.                 *)
(*                                                                         *)
(* A std::string is a TLA+ string (a sequence of characters); a character  *)
(* is a string of length 1.  The characters are the printable ASCII ones,  *)
(* so every argument of isalpha/isdigit/isalnum/toupper is in the range    *)
(* where those functions are defined.                                      *)
(***************************************************************************)
EXTENDS Integers, Sequences, FiniteSets, TLC

(***************************************************************************)
(* Characters.                                                             *)
(***************************************************************************)
\* the printable ASCII characters with codes 32..95, in code order
AsciiLow == " !\"#$%&'()*+,-./0123456789:;<=>?@ABCDEFGHIJKLMNOPQRSTUVWXYZ[\\]^_"

\* the printable ASCII characters with codes 97..126, in code order (the
\* character with code 96 cannot be written in a string and is left out)
AsciiHigh == "abcdefghijklmnopqrstuvwxyz{|}~"

CharAt(s, i) == SubSeq(s, i, i)

OrdOf ==
  [c \in {CharAt(AsciiLow, i) : i \in 1..Len(AsciiLow)}
           \cup {CharAt(AsciiHigh, i) : i \in 1..Len(AsciiHigh)} |->
     IF \E i \in 1..Len(AsciiLow) : CharAt(AsciiLow, i) = c
     THEN 31 + (CHOOSE i \in 1..Len(AsciiLow) : CharAt(AsciiLow, i) = c)
     ELSE 96 + (CHOOSE i \in 1..Len(AsciiHigh) : CharAt(AsciiHigh, i) = c)]

\* the character code of ch
Ord(ch) == OrdOf[ch]

\* the character with code n
Chr(n) == IF n < 96 THEN CharAt(AsciiLow, n - 31) ELSE CharAt(AsciiHigh, n - 96)

isspace(ch) == Ord(ch) \in {9, 10, 11, 12, 13, 32}

isdigit(ch) == Ord(ch) \in 48..57

isalpha(ch) == Ord(ch) \in (65..90) \cup (97..122)

isalnum(ch) == isalpha(ch) \/ isdigit(ch)

toupper(ch) == IF Ord(ch) \in 97..122 THEN Chr(Ord(ch) - 32) ELSE ch

\* s.substr(pos, n) for pos <= s.length(), positions counted from 0
substr(s, pos, n) ==
  SubSeq(s, pos + 1, IF pos + n < Len(s) THEN pos + n ELSE Len(s))

\* s.substr(pos): the rest of s from position pos
substrFrom(s, pos) == SubSeq(s, pos + 1, Len(s))

(***************************************************************************)
(* Integers and their text.                                                *)
(***************************************************************************)
DigitText == "0123456789"

RECURSIVE to_string_nat(_)
\* decimal text of a natural number, no padding
to_string_nat(n) ==
  IF n < 10 THEN CharAt(DigitText, n + 1)
  ELSE to_string_nat(n \div 10) \o CharAt(DigitText, (n % 10) + 1)

\* A size_t is held as the int it was cast from: n >= 0 is the value n, and
\* n < 0 is the value 2^64 + n (static_cast<size_t> of a negative int).
\* 2^64 = 18446744073709551616, so for -16 <= n < 0 the text is the first
\* 18 digits of 2^64 followed by 16 + n on two digits.
to_string(n) ==
  IF n >= 0 THEN to_string_nat(n)
  ELSE "184467440737095516"
         \o (IF 16 + n < 10 THEN "0" ELSE "") \o to_string_nat(16 + n)

RECURSIVE stoiDigits(_, _, _)
\* the digits of t from index i (1-based) on, accumulated into acc; n counts them
stoiDigits(t, i, r) ==
  IF i <= Len(t) /\ isdigit(CharAt(t, i))
  THEN stoiDigits(t, i + 1,
         [val |-> r.val * 10 + (Ord(CharAt(t, i)) - 48), n |-> r.n + 1])
  ELSE r

RECURSIVE skipSpace(_, _)
skipSpace(t, i) ==
  IF i <= Len(t) /\ isspace(CharAt(t, i)) THEN skipSpace(t, i + 1) ELSE i

\* std::stoi(t): skips leading white space, takes an optional sign and the
\* longest run of digits; throws (ok = FALSE) when there is no digit.
stoi(t) ==
  LET i    == skipSpace(t, 1)
      sgn  == IF i <= Len(t) /\ CharAt(t, i) = "-" THEN -1 ELSE 1
      j    == IF i <= Len(t) /\ CharAt(t, i) \in {"+", "-"} THEN i + 1 ELSE i
      r    == stoiDigits(t, j, [val |-> 0, n |-> 0])
  IN  [ok |-> r.n > 0, val |-> sgn * r.val]

(***************************************************************************)
(* IBAN::createFromString.                                                 *)
(***************************************************************************)
RECURSIVE ltrim(_)
ltrim(s) == IF Len(s) > 0 /\ isspace(Head(s)) THEN ltrim(Tail(s)) ELSE s

RECURSIVE rtrim(_)
rtrim(s) ==
  IF Len(s) > 0 /\ isspace(CharAt(s, Len(s)))
  THEN rtrim(SubSeq(s, 1, Len(s) - 1)) ELSE s

\* trim(s) of utils.h: removes the white space at both ends of s
trim(s) == rtrim(ltrim(s))

RECURSIVE transformToupper(_)
\* std::transform(s.begin(), s.end(), s.begin(), ::toupper)
transformToupper(s) ==
  IF Len(s) = 0 THEN s ELSE toupper(Head(s)) \o transformToupper(Tail(s))

\* the string createFromString works on: the argument trimmed and uppercased
normalize(string) == transformToupper(trim(string))

\* the largest and the smallest length createFromString accepts
MaxIbanLength == 34

MinIbanLength == 5

\* the length check with the upper limit off by one
lengthError_offByOne(s) ==
  IF Len(s) > MaxIbanLength + 1 THEN "TooLong"
  ELSE IF Len(s) < MinIbanLength THEN "TooShort"
  ELSE "none"

\* the length check: which side of it rejects s, "none" when it passes
lengthError(s) ==
  IF Len(s) > MaxIbanLength THEN "TooLong"
  ELSE IF Len(s) < MinIbanLength THEN "TooShort"
  ELSE "none"

\* the country code check looking at the first character only
countryCodeOk_firstOnly(countryCode) == isalpha(CharAt(countryCode, 1))

\* the country code check: both characters are alphabetic
countryCodeOk(countryCode) ==
  isalpha(CharAt(countryCode, 1)) /\ isalpha(CharAt(countryCode, 2))

\* the account identifier check: every character is alphanumeric
accIDOk(accID) == \A i \in 1..Len(accID) : isalnum(CharAt(accID, i))

\* the result of a parse that threw; error names the throw statement, and
\* for the length check the side of the condition that held
Failure(error) ==
  [ok |-> FALSE, error |-> error,
   countryCode |-> "", accountIdentifier |-> "", checkSum |-> 0]

\* IBAN::createFromString(string): the IBAN built, or the IBANParseException
createFromString(string) ==
  LET s           == normalize(string)
      countryCode == substr(s, 0, 2)
      checkSum    == stoi(substr(s, 2, 2))
      accID       == substrFrom(s, 4)
  IN  IF lengthError(s) # "none" THEN Failure(lengthError(s))
      ELSE IF ~countryCodeOk(countryCode) THEN Failure("InvalidCountryCode")
      ELSE IF ~checkSum.ok THEN Failure("InvalidCheckDigits")
      ELSE IF ~accIDOk(accID) THEN Failure("InvalidAccountIdentifier")
      ELSE [ok |-> TRUE, error |-> "none",
            countryCode |-> countryCode, accountIdentifier |-> accID,
            checkSum |-> checkSum.val]

(***************************************************************************)
(* The object: an IBAN holds m_countryCode, m_accountIdentifier and        *)
(* m_checkSum.  The operators below take it as a record of the three.      *)
(***************************************************************************)
\* IBAN::m_countryCodes, in the order of the initializer list; std::map keeps
\* the first of two entries with the same key ("SA" is listed twice)
m_countryCodes ==
  << <<"AL", 28>>, <<"AD", 24>>, <<"AT", 20>>, <<"AZ", 28>>, <<"BE", 16>>,
     <<"BH", 22>>, <<"BA", 20>>, <<"BR", 29>>, <<"BG", 22>>, <<"CR", 22>>,
     <<"HR", 21>>, <<"CY", 28>>, <<"CZ", 24>>, <<"DK", 18>>, <<"DO", 28>>,
     <<"EE", 20>>, <<"FO", 18>>, <<"FI", 18>>, <<"FR", 27>>, <<"GE", 22>>,
     <<"DE", 22>>, <<"GI", 23>>, <<"GR", 27>>, <<"GL", 18>>, <<"GT", 28>>,
     <<"HU", 28>>, <<"IS", 26>>, <<"IE", 22>>, <<"IL", 23>>, <<"IT", 27>>,
     <<"KZ", 20>>, <<"KW", 30>>, <<"LV", 21>>, <<"LB", 28>>, <<"LI", 21>>,
     <<"LT", 20>>, <<"LU", 20>>, <<"MK", 19>>, <<"MT", 31>>, <<"MR", 27>>,
     <<"MU", 30>>, <<"MC", 27>>, <<"MD", 24>>, <<"ME", 22>>, <<"NL", 18>>,
     <<"NO", 15>>, <<"PK", 24>>, <<"PS", 29>>, <<"PL", 28>>, <<"PT", 25>>,
     <<"RO", 24>>, <<"SM", 27>>, <<"SA", 24>>, <<"RS", 22>>, <<"SK", 24>>,
     <<"SI", 19>>, <<"ES", 24>>, <<"SE", 24>>, <<"CH", 21>>, <<"TN", 24>>,
     <<"TR", 26>>, <<"AE", 23>>, <<"GB", 22>>, <<"VG", 24>>, <<"BJ", 28>>,
     <<"BF", 28>>, <<"BI", 16>>, <<"CM", 27>>, <<"CV", 25>>, <<"TL", 23>>,
     <<"IR", 26>>, <<"CI", 28>>, <<"JO", 30>>, <<"SA", 24>>, <<"MG", 27>>,
     <<"ML", 28>>, <<"MZ", 25>>, <<"QA", 29>>, <<"XK", 20>>, <<"SN", 28>>,
     <<"LC", 32>>, <<"ST", 25>>, <<"UA", 29>>, <<"SC", 31>>, <<"IQ", 23>>,
     <<"BY", 28>>, <<"SV", 28>>, <<"AO", 25>>, <<"CF", 27>>, <<"CG", 27>>,
     <<"EG", 27>>, <<"DJ", 27>>, <<"DZ", 24>>, <<"GA", 27>>, <<"GQ", 27>>,
     <<"GW", 25>>, <<"MA", 28>>, <<"NE", 28>>, <<"TD", 27>>, <<"TG", 28>>,
     <<"KM", 27>>, <<"HN", 28>>, <<"NI", 32>> >>

\* m_countryCodes.find(key) != m_countryCodes.end()
hasCountry(key) == \E i \in 1..Len(m_countryCodes) : m_countryCodes[i][1] = key

\* m_countryCodes.find(key)->second
expectedLengthOf(key) ==
  LET first == CHOOSE i \in 1..Len(m_countryCodes) :
                 /\ m_countryCodes[i][1] = key
                 /\ \A j \in 1..(i - 1) : m_countryCodes[j][1] # key
  IN  m_countryCodes[first][2]

(***************************************************************************)
(* The getters and the two formatters.                                     *)
(***************************************************************************)
getAccountIdentifier(obj) == obj.accountIdentifier

getChecksum(obj) == obj.checkSum

getCountryCode(obj) == obj.countryCode

\* IBAN::getMachineForm
getMachineForm(obj) ==
  obj.countryCode \o to_string(obj.checkSum) \o obj.accountIdentifier

\* std::string::insert(i, 1, ' ')
insertSpace(s, i) == SubSeq(s, 1, i) \o " " \o SubSeq(s, i + 1, Len(s))

\* the distance between two inserted spaces
GroupStride == 5

RECURSIVE insertLoop(_, _)
\* the for loop of getHumanReadable from index i on: m_accountIdentifier after it
insertLoop(accID, i) ==
  IF i < Len(accID) THEN insertLoop(insertSpace(accID, i), i + GroupStride)
  ELSE accID

\* IBAN::getHumanReadable: the string returned and m_accountIdentifier after
\* the call
getHumanReadable(obj) ==
  LET accID == insertLoop(obj.accountIdentifier, 0)
  IN  [text |-> obj.countryCode \o to_string(obj.checkSum) \o accID,
       accountIdentifier |-> accID]

(***************************************************************************)
(* IBAN::validate.                                                         *)
(***************************************************************************)
RECURSIVE padChecksum(_)
\* while (checksum.length() < 2) checksum = "0" + checksum
padChecksum(checksum) ==
  IF Len(checksum) < 2 THEN padChecksum("0" \o checksum) ELSE checksum

\* accountIdentifier + countryCode + padded checksum
checkStringOf(obj) ==
  obj.accountIdentifier \o obj.countryCode \o padChecksum(to_string(obj.checkSum))

\* the letter value counted from 11 instead of 10
letterValue_plusTen(ch) == (Ord(ch) % 32) + 10

\* (31 & ch) + 9: the low five bits of the character code, plus 9
letterValue(ch) == (Ord(ch) % 32) + 9

RECURSIVE substitute(_)
\* the substitution loop: the numeric string, with ok = FALSE when a character
\* is neither a digit nor a letter (validate returns false there)
substitute(checkString) ==
  IF Len(checkString) = 0 THEN [ok |-> TRUE, numeric |-> ""]
  ELSE LET ch   == Head(checkString)
           rest == substitute(Tail(checkString))
       IN  IF isdigit(ch)
           THEN [ok |-> rest.ok, numeric |-> ch \o rest.numeric]
           ELSE IF isalpha(ch)
           THEN [ok |-> rest.ok,
                 numeric |-> to_string(letterValue(ch)) \o rest.numeric]
           ELSE [ok |-> FALSE, numeric |-> ""]

RECURSIVE mod97From(_, _)
mod97From(text, r) ==
  IF Len(text) = 0 THEN r
  ELSE mod97From(Tail(text), (r * 10 + (Ord(Head(text)) - 48)) % 97)

\* std::stol(text) % 97 for a text of decimal digits.  The value of stol is
\* reduced digit by digit, which gives the same remainder as reducing the
\* whole value and keeps every intermediate result small.
stolMod97(text) == mod97From(text, 0)

\* the length of the first segment and of the later ones
FirstStep == 9

NextStep == 7

\* the remainder with "0" prepended whatever its size
prependedOf_always(remainder) == "0" \o to_string(remainder)

\* the two-character text of a remainder: to_string, "0" prepended when < 10
prependedOf(remainder) ==
  IF remainder < 10 THEN "0" \o to_string(remainder) ELSE to_string(remainder)

RECURSIVE reduceLoop(_, _, _, _, _)
\* the while loop and the final conversion, from segment start seg (counted
\* from 0) with the current step and prepended text.  converted lists every
\* text given to std::stol, in order; remainder is the last number % 97.
\* numeric has at least 15 characters when validate reaches the loop (every
\* length of m_countryCodes is at least 15), so numeric.length() - step does
\* not wrap and every substr starts inside numeric.
reduceLoop(numeric, seg, step, prepended, converted) ==
  IF seg < Len(numeric) - step
  THEN LET text == prepended \o substr(numeric, seg, step)
       IN  reduceLoop(numeric, seg + step, NextStep,
                      prependedOf(stolMod97(text)), Append(converted, text))
  ELSE LET text == prepended \o substrFrom(numeric, seg)
       IN  [remainder |-> stolMod97(text), converted |-> Append(converted, text)]

\* IBAN::validate: the value returned, and the texts converted on the way
validate(obj) ==
  LET checkString == checkStringOf(obj)
      sub         == substitute(checkString)
      red         == reduceLoop(sub.numeric, 0, FirstStep, "", <<>>)
  IN  IF ~hasCountry(obj.countryCode)
      THEN [result |-> FALSE, converted |-> <<>>]
      ELSE IF Len(checkString) # expectedLengthOf(obj.countryCode)
      THEN [result |-> FALSE, converted |-> <<>>]
      ELSE IF ~sub.ok
      THEN [result |-> FALSE, converted |-> <<>>]
      ELSE [result |-> (red.remainder = 1), converted |-> red.converted]

(***************************************************************************)
(* The inputs of createFromString.                                         *)
(***************************************************************************)
\* the longest input enumerated exhaustively over SmallAlphabet
MaxShort == 4

\* the number of getHumanReadable calls followed on one object
MaxCalls == 2

\* two letters that spell the table's keys "DE" and "EE" (one in lower
\* case), two digits, white space, the two signs stoi accepts
SmallAlphabet == {"D", "e", "0", "7", " ", "-", "+"}

RECURSIVE StringsOfLength(_)
StringsOfLength(n) ==
  IF n = 0 THEN {""}
  ELSE {s \o c : s \in StringsOfLength(n - 1), c \in SmallAlphabet}

ShortInputs == UNION {StringsOfLength(n) : n \in 0..MaxShort}

\* rests of 1 character (total length 5, the shortest accepted) and of 16,
\* 18, 30 and 31 characters (total lengths 20, 22, 34 and 35), one with a
\* space inside and one whose last two characters are white space
Tails ==
  { "7", "e", "-",
    "2200221020145685",
    "370400440532013000",
    "123456789012345678901234567890",
    "1234567890123456789012345678901",
    "3704 0044",
    "12345678901234567890123456789  " }

HeadTailInputs == {h \o t : h \in StringsOfLength(4), t \in Tails}

\* sample IBANs of lengths 15, 16, 20, 22, 22, 31 and 32 without their check
\* digits, and one with a country code that is not in the table
Corpus ==
  { <<"NO", "86011117947">>,
    <<"BE", "539007547034">>,
    <<"EE", "2200221020145685">>,
    <<"DE", "370400440532013000">>,
    <<"GB", "WEST12345698765432">>,
    <<"MT", "MALT011000012345MTLCAST001S">>,
    <<"LC", "HEMM000100010012001200023015">>,
    <<"XX", "370400440532013000">> }

DigitChars == {CharAt(DigitText, i) : i \in 1..10}

\* every corpus entry with every pair of check digits
CorpusInputs ==
  {e[1] \o d1 \o d2 \o e[2] : e \in Corpus, d1 \in DigitChars, d2 \in DigitChars}

\* "GB82WEST12345698765432" with one character of the account identifier
\* replaced
VariantInputs ==
  LET body == "WEST12345698765432"
  IN  {"GB82" \o SubSeq(body, 1, i - 1) \o c \o SubSeq(body, i + 1, Len(body)) :
         i \in 1..Len(body), c \in DigitChars \cup {"A", "Z", "w"}}

\* the scenarios of the specification, and inputs whose check digits are not
\* two decimal digits ("GI-7A" gives a check string of the table's length 23)
ScenarioInputs ==
  { "DE89 3704 0044 0532 0130 00",
    "GB00WEST12345698765432",
    "XX",
    "  de89370400440532013000 ",
    "DE1A370400440532013",
    "GI-7A" }

Inputs ==
  ShortInputs \cup HeadTailInputs \cup CorpusInputs \cup VariantInputs
    \cup ScenarioInputs

(***************************************************************************)
(* The state machine: one call of createFromString, then any calls of the  *)
(* member functions on the object it returned.                             *)
(***************************************************************************)
VARIABLES
  string,               \* the argument of createFromString
  pc,                   \* "start", "parsed" (an object exists) or "failed"
  error,                \* which check threw the IBANParseException
  m_countryCode,        \* the fields of the object
  m_accountIdentifier,
  m_checkSum,
  hrCalls,              \* calls of getHumanReadable so far
  ret,                  \* the last member function called and what it returned
  second                \* createFromString applied to a returned machine form

vars == <<string, pc, error, m_countryCode, m_accountIdentifier, m_checkSum,
          hrCalls, ret, second>>

\* the object as the operators above take it
this ==
  [countryCode |-> m_countryCode, accountIdentifier |-> m_accountIdentifier,
   checkSum |-> m_checkSum]

NoReturn == [op |-> "none", val |-> "", converted |-> <<>>]

NoSecond == [done |-> FALSE, res |-> Failure("none")]

Init ==
  /\ string \in Inputs
  /\ pc = "start"
  /\ error = "none"
  /\ m_countryCode = ""
  /\ m_accountIdentifier = ""
  /\ m_checkSum = 0
  /\ hrCalls = 0
  /\ ret = NoReturn
  /\ second = NoSecond

\* createFromString(string) returns an object
CreateOk ==
  /\ pc = "start"
  /\ createFromString(string).ok
  /\ pc' = "parsed"
  /\ m_countryCode' = createFromString(string).countryCode
  /\ m_accountIdentifier' = createFromString(string).accountIdentifier
  /\ m_checkSum' = createFromString(string).checkSum
  /\ UNCHANGED <<string, error, hrCalls, ret, second>>

\* createFromString(string) throws
CreateThrows ==
  /\ pc = "start"
  /\ ~createFromString(string).ok
  /\ pc' = "failed"
  /\ error' = createFromString(string).error
  /\ UNCHANGED <<string, m_countryCode, m_accountIdentifier, m_checkSum,
                 hrCalls, ret, second>>

GetAccountIdentifier ==
  /\ pc = "parsed"
  /\ ret' = [op |-> "getAccountIdentifier", val |-> getAccountIdentifier(this),
             converted |-> <<>>]
  /\ UNCHANGED <<string, pc, error, m_countryCode, m_accountIdentifier,
                 m_checkSum, hrCalls, second>>

GetChecksum ==
  /\ pc = "parsed"
  /\ ret' = [op |-> "getChecksum", val |-> getChecksum(this),
             converted |-> <<>>]
  /\ UNCHANGED <<string, pc, error, m_countryCode, m_accountIdentifier,
                 m_checkSum, hrCalls, second>>

GetCountryCode ==
  /\ pc = "parsed"
  /\ ret' = [op |-> "getCountryCode", val |-> getCountryCode(this),
             converted |-> <<>>]
  /\ UNCHANGED <<string, pc, error, m_countryCode, m_accountIdentifier,
                 m_checkSum, hrCalls, second>>

GetMachineForm ==
  /\ pc = "parsed"
  /\ ret' = [op |-> "getMachineForm", val |-> getMachineForm(this),
             converted |-> <<>>]
  /\ UNCHANGED <<string, pc, error, m_countryCode, m_accountIdentifier,
                 m_checkSum, hrCalls, second>>

GetHumanReadable ==
  /\ pc = "parsed"
  /\ hrCalls < MaxCalls
  /\ hrCalls' = hrCalls + 1
  /\ m_accountIdentifier' = getHumanReadable(this).accountIdentifier
  /\ ret' = [op |-> "getHumanReadable", val |-> getHumanReadable(this).text,
             converted |-> <<>>]
  /\ UNCHANGED <<string, pc, error, m_countryCode, m_checkSum, second>>

Validate ==
  /\ pc = "parsed"
  /\ ret' = [op |-> "validate", val |-> validate(this).result,
             converted |-> validate(this).converted]
  /\ UNCHANGED <<string, pc, error, m_countryCode, m_accountIdentifier,
                 m_checkSum, hrCalls, second>>

\* the machine form just returned is parsed again
Reparse ==
  /\ pc = "parsed"
  /\ ret.op = "getMachineForm"
  /\ second' = [done |-> TRUE, res |-> createFromString(ret.val)]
  /\ UNCHANGED <<string, pc, error, m_countryCode, m_accountIdentifier,
                 m_checkSum, hrCalls, ret>>

Next ==
  \/ CreateOk
  \/ CreateThrows
  \/ GetAccountIdentifier
  \/ GetChecksum
  \/ GetCountryCode
  \/ GetMachineForm
  \/ GetHumanReadable
  \/ Validate
  \/ Reparse

Spec == Init /\ [][Next]_vars

(***************************************************************************)
(* Reference definitions used by the properties.                           *)
(***************************************************************************)
\* what createFromString(string) returned when the object was constructed
Constructed == createFromString(string)

\* n in 0..99 on exactly two digits
TwoDigits(n) == CharAt(DigitText, (n \div 10) + 1) \o CharAt(DigitText, (n % 10) + 1)

UpperLetters == "ABCDEFGHIJKLMNOPQRSTUVWXYZ"

IsUpper(ch) == \E i \in 1..26 : CharAt(UpperLetters, i) = ch

IsDecimal(ch) == ch \in DigitChars

\* A..Z stand for 10..35
LetterNumber(ch) == 9 + (CHOOSE i \in 1..26 : CharAt(UpperLetters, i) = ch)

RECURSIVE WholeMod97(_, _)
\* the remainder modulo 97 of the decimal number spelled by s (digits kept,
\* A..Z replaced by 10..35), continued from the remainder r of what precedes
WholeMod97(s, r) ==
  IF Len(s) = 0 THEN r
  ELSE IF IsDecimal(Head(s))
  THEN WholeMod97(Tail(s), (10 * r + (CHOOSE d \in 0..9 : CharAt(DigitText, d + 1) = Head(s))) % 97)
  ELSE WholeMod97(Tail(s), (100 * r + LetterNumber(Head(s))) % 97)

\* the three conditions of a valid IBAN
IsValidIban(obj) ==
  /\ hasCountry(obj.countryCode)
  /\ Len(obj.accountIdentifier) + 4 = expectedLengthOf(obj.countryCode)
  /\ WholeMod97(obj.accountIdentifier \o obj.countryCode
                  \o TwoDigits(obj.checkSum), 0) = 1

\* a well-formed IbanValue
WellFormed(obj) ==
  /\ Len(obj.countryCode) = 2
  /\ \A i \in 1..2 : IsUpper(CharAt(obj.countryCode, i))
  /\ obj.checkSum \in 0..99
  /\ \A i \in 1..Len(obj.accountIdentifier) :
       LET ch == CharAt(obj.accountIdentifier, i) IN IsUpper(ch) \/ IsDecimal(ch)

RECURSIVE Grouped(_)
\* s in groups of 4 characters separated by one space
Grouped(s) ==
  IF Len(s) <= 4 THEN s ELSE SubSeq(s, 1, 4) \o " " \o Grouped(SubSeq(s, 5, Len(s)))

\* the machine form of the value constructed, check digits on two digits
PaddedMachineForm ==
  Constructed.countryCode
    \o (IF Constructed.checkSum \in 0..99 THEN TwoDigits(Constructed.checkSum)
        ELSE to_string(Constructed.checkSum))
    \o Constructed.accountIdentifier

\* std::stol(text) for a text of at most 9 decimal digits
RECURSIVE stol(_)
stol(text) ==
  IF Len(text) = 0 THEN 0
  ELSE 10 * stol(SubSeq(text, 1, Len(text) - 1)) + (Ord(CharAt(text, Len(text))) - 48)

\* the check digits of the input are written as two decimal digits
TwoDigitInput ==
  /\ IsDecimal(CharAt(normalize(string), 3))
  /\ IsDecimal(CharAt(normalize(string), 4))

\* the object has not been changed since createFromString returned it
Untouched ==
  /\ pc = "parsed"
  /\ m_countryCode = Constructed.countryCode
  /\ m_accountIdentifier = Constructed.accountIdentifier
  /\ m_checkSum = Constructed.checkSum

(***************************************************************************)
(* The properties.                                                         *)
(***************************************************************************)
\* C1: after any sequence of calls of the getters, getMachineForm,
\* getHumanReadable and validate, the stored country code, check digits and
\* account identifier are the ones stored at construction.
C1_Immutable == pc = "parsed" => Untouched

\* C2: on a well-formed value validate returns true exactly when the country
\* code is in the table, the length is the table's, and the whole number
\* (account identifier, country code, padded check digits; letters as 10..35)
\* is congruent to 1 modulo 97.
C2_ValidateIff ==
  (pc = "parsed" /\ ret.op = "validate" /\ WellFormed(this))
    => (ret.val = IsValidIban(this))

\* C2 witness: validate has accepted an IBAN with letters in its identifier
C2_Witness ==
  /\ string = "GB82WEST12345698765432"
  /\ ret.op = "validate"
  /\ ret.val = TRUE

\* C3: every value constructed has check digits in 0..99, and the characters
\* at positions 2 and 3 of the normalized input are both decimal digits.
C3_CheckDigitsAreDigits ==
  pc = "parsed" =>
    /\ Constructed.checkSum \in 0..99
    /\ IsDecimal(CharAt(normalize(string), 3))
    /\ IsDecimal(CharAt(normalize(string), 4))

\* C4: parsing the machine form of a parsed value succeeds and gives the same
\* country code, check digits and account identifier.
C4_RoundTrip ==
  (second.done /\ Untouched /\ TwoDigitInput) =>
    /\ second.res.ok
    /\ second.res.countryCode = Constructed.countryCode
    /\ second.res.checkSum = Constructed.checkSum
    /\ second.res.accountIdentifier = Constructed.accountIdentifier

\* C5: the machine form is the country code, the check digits on exactly two
\* digits and the account identifier, and equals the normalized input.
C5_MachineForm ==
  (ret.op = "getMachineForm" /\ Untouched /\ TwoDigitInput) =>
    /\ ret.val = PaddedMachineForm
    /\ ret.val = normalize(string)

\* C6: every call of getHumanReadable, the first or a later one, returns the
\* machine form in groups of 4 characters separated by one space.
C6_HumanReadable ==
  (pc = "parsed" /\ ret.op = "getHumanReadable" /\ TwoDigitInput)
    => ret.val = Grouped(PaddedMachineForm)

\* C7: an input whose normalized length is below 5 fails with TooShort and
\* one whose normalized length is above 34 fails with TooLong, whatever its
\* characters are; no such input yields an object.
C7_LengthFirst ==
  pc # "start" =>
    /\ Len(normalize(string)) < 5 => (pc = "failed" /\ error = "TooShort")
    /\ Len(normalize(string)) > 34 => (pc = "failed" /\ error = "TooLong")

\* C7 witness: an input that is too long and whose first two characters are
\* not letters has been rejected
C7_Witness ==
  /\ pc = "failed"
  /\ Len(normalize(string)) > 34
  /\ ~IsUpper(CharAt(normalize(string), 1))

\* C8 (as stated): every input, of any length, whose first two characters are
\* not both alphabetic fails with InvalidCountryCode.
C8_AnyLength ==
  (pc # "start" /\ Len(string) >= 2
     /\ ~(isalpha(CharAt(string, 1)) /\ isalpha(CharAt(string, 2))))
    => (pc = "failed" /\ error = "InvalidCountryCode")

\* C8 (amended): every input whose normalized length is in 5..34 and whose
\* first two normalized characters are not both alphabetic fails with
\* InvalidCountryCode.
C8_InRange ==
  (pc # "start" /\ Len(normalize(string)) \in 5..34
     /\ ~(IsUpper(CharAt(normalize(string), 1)) /\ IsUpper(CharAt(normalize(string), 2))))
    => (pc = "failed" /\ error = "InvalidCountryCode")

\* C8 witness: an input of an accepted length whose first character is a
\* letter and whose second is not has been rejected
C8_Witness ==
  /\ pc = "failed"
  /\ Len(normalize(string)) \in 5..34
  /\ IsUpper(CharAt(normalize(string), 1))
  /\ ~IsUpper(CharAt(normalize(string), 2))

\* C9: "DE89 3704 0044 0532 0130 00" parses to country code "DE", check
\* digits 89 and account identifier "370400440532013000", and validate
\* returns true on the result.
C9_GroupedInput ==
  (pc # "start" /\ string = "DE89 3704 0044 0532 0130 00") =>
    /\ pc = "parsed"
    /\ Constructed.countryCode = "DE"
    /\ Constructed.checkSum = 89
    /\ Constructed.accountIdentifier = "370400440532013000"
    /\ (ret.op = "validate" /\ Untouched) => ret.val = TRUE

\* C10: every text validate converts to an integer and reduces modulo 97 has
\* at most 9 decimal digits, so the integer is below 10^9.
C10_ChunksFit ==
  (pc = "parsed" /\ ret.op = "validate") =>
    \A i \in 1..Len(ret.converted) :
      /\ Len(ret.converted[i]) <= 9
      /\ \A k \in 1..Len(ret.converted[i]) : IsDecimal(CharAt(ret.converted[i], k))
      /\ stol(ret.converted[i]) < 1000000000

\* C10 witness: validate has reduced a check string of the longest table
\* length in six conversions, the middle ones of 9 digits
C10_Witness ==
  /\ pc = "parsed"
  /\ ret.op = "validate"
  /\ Len(m_accountIdentifier) = 28
  /\ Len(ret.converted) >= 6
  /\ Len(ret.converted[2]) = 9

=============================================================================
